---- MODULE Spec2Model ----
(***************************************************************************)
(* Transaction finalization and account-UTXO indexing of core/asset        *)
(* (finalize.go): FinalizeTx, FinalizeTxWait, publishTx, addBlock,         *)
(* addAccountData, markPrevSpentInPool, insertAccountOutputs,              *)
(* loadAccountInfo.  The relational store is modelled as the set of rows   *)
(* of account_utxos, and every SQL statement as the relational operation   *)
(* it denotes.                                                             *)
(***************************************************************************)
EXTENDS Integers, Sequences, FiniteSets, TLC

(* ------------------------------ bounds -------------------------------- *)

\* Number of blocks that land during a run.
MaxHeight == 2

\* Largest number of signature entries a template carries.
MaxSigs == 2

\* Number of FinalizeTx calls of a run.
MaxCalls == 2

\* Number of collaborator failures (database, transport, relay) of a run.
MaxFaults == 1

(* ---------------------------- error values ----------------------------- *)

\* A Go error: nil, or a root error with the detail strings and the context
\* messages the chain/errors wrappers added (outermost message first).
Nil == [root |-> "nil", detail |-> <<>>, msg |-> <<>>]

ErrorsNew(name) == [root |-> name, detail |-> <<>>, msg |-> <<>>]

ErrBadTxTemplate == ErrorsNew("bad transaction template")

ErrRejected == ErrorsNew("transaction rejected")

\* Errors of the collaborators (cos/validation, cos, context, database/pg).
ErrBadTx == "invalid transaction"

ErrTheDistantFuture == "the distant future"

DeadlineExceeded == "context deadline exceeded"

Canceled == "context canceled"

\* Strings built at run time are kept as the sequence of their pieces.
\* errors.Wrap(err, msg): nil stays nil; root and detail are kept.
ErrorsWrap(err, m) ==
    IF err = Nil THEN Nil ELSE [err EXCEPT !.msg = m \o @]

\* errors.WithDetail(err, text): wraps and appends text to the detail.
ErrorsWithDetail(err, text) ==
    IF err = Nil THEN Nil
    ELSE [err EXCEPT !.msg = text \o @, !.detail = @ \o text]

ErrorsRoot(err) == err.root

\* errors.Detail(err): the detail strings joined.
ErrorsDetail(err) == err.detail

\* err.Error(): the context messages, then the root's text.
ErrorsText(err) == err.msg \o <<err.root>>

(* ---------------------------- transactions ----------------------------- *)

Issuance == [issuance |-> TRUE, hash |-> "", index |-> 0]

Spend(h, i) == [issuance |-> FALSE, hash |-> h, index |-> i]

TxOut(script) == [script |-> script]

\* The transactions of the runs: T1 and T2 both spend output 0 of T0.
TxHashes == {"T0", "T1", "T2"}

\* The transactions of the runs with a pending tx callback: T3 spends both
\* outputs of T1, T4 the first of them.
RaceTxHashes == {"T0", "T1", "T3", "T4"}

Tx(h) ==
    CASE h = "T0" -> [hash |-> "T0", inputs |-> <<Issuance>>,
                      outputs |-> <<TxOut("sA"), TxOut("sX")>>]
      [] h = "T1" -> [hash |-> "T1", inputs |-> <<Spend("T0", 0)>>,
                      outputs |-> <<TxOut("sA"), TxOut("sA")>>]
      [] h = "T2" -> [hash |-> "T2", inputs |-> <<Issuance, Spend("T0", 0)>>,
                      outputs |-> <<TxOut("sB")>>]
      [] h = "T3" -> [hash |-> "T3",
                      inputs |-> <<Spend("T1", 0), Spend("T1", 1)>>,
                      outputs |-> <<TxOut("sB")>>]
      [] h = "T4" -> [hash |-> "T4", inputs |-> <<Spend("T1", 0)>>,
                      outputs |-> <<TxOut("sA")>>]

\* The addresses table: pk_script, manager_node_id, account_id.
Addresses ==
    << [pk_script |-> "sB", manager_node_id |-> "mn1", account_id |-> "acc2"],
       [pk_script |-> "sA", manager_node_id |-> "mn1", account_id |-> "acc1"] >>

NULL == -1

\* The error of a failed statement (pg.Exec, pg.Query, rows.Scan).
ErrPg == "pg: statement failed"

(* ------------------------- derivation index key ------------------------ *)

\* The integers of the key are modelled at a reduced width: a component of
\* the derivation index has Width bits where uint32 has 32, the key 2 * Width
\* bits where int64 has 64, and the shift and the mask of toKeyIndex are
\* Width - 1 bits where the code has 31.
Width == 3

Shift == Width - 1

Mask == 2^(Width - 1) - 1

\* The values of a component (uint32).
UInt == 0..(2^Width - 1)

\* A value as the signed integer of the key's width (int64), two's
\* complement.
Int64(x) == ((x + 2^(2 * Width - 1)) % 2^(2 * Width)) - 2^(2 * Width - 1)

\* The bits of x as an unsigned integer of the key's width.
Bits(x) == x % 2^(2 * Width)

\* a & b and a | b, bit by bit, on unsigned integers.
RECURSIVE BitAnd(_, _)
BitAnd(a, b) ==
    IF a = 0 \/ b = 0 THEN 0
    ELSE (a % 2) * (b % 2) + 2 * BitAnd(a \div 2, b \div 2)

RECURSIVE BitOr(_, _)
BitOr(a, b) ==
    IF a = 0 THEN b
    ELSE IF b = 0 THEN a
    ELSE ((a % 2) + (b % 2) - (a % 2) * (b % 2))
         + 2 * BitOr(a \div 2, b \div 2)

\* x << n on the signed integer of the key's width.
Shl(x, n) == Int64(Bits(x) * 2^n)

\* toKeyIndex without the mask on the low component.
toKeyIndexUnmasked(i) ==
    Int64(BitOr(Bits(Shl(Int64(i[1]), Shift)), Bits(Int64(i[2]))))

\* toKeyIndex(i), line 338: int64(i[0])<<31 | int64(i[1]&0x7fffffff).
toKeyIndex(i) ==
    Int64(BitOr(Bits(Shl(Int64(i[1]), Shift)),
                Bits(Int64(BitAnd(i[2], Mask)))))

(* ------------------------- account_utxos store ------------------------- *)

\* The one element of a singleton set.  A value computed once is bound as the
\* element of a singleton: {e(x) : x \in {v}}.
Only(S) == CHOOSE x \in S : TRUE

SeqRange(s) == {s[i] : i \in 1..Len(s)}

RowKey(r) == <<r.tx_hash, r.index>>

\* The (tx_hash, index) pairs markPrevSpentInPool collects from the
\* non-issuance inputs of one input list (the arrays txhash and index).
RECURSIVE PrevoutsOfInputs(_)
PrevoutsOfInputs(ins) ==
    IF ins = <<>> THEN <<>>
    ELSE (IF Head(ins).issuance THEN <<>>
          ELSE << <<Head(ins).hash, Head(ins).index>> >>)
         \o PrevoutsOfInputs(Tail(ins))

RECURSIVE PrevoutsOfTxs(_)
PrevoutsOfTxs(txs) ==
    IF txs = <<>> THEN <<>>
    ELSE PrevoutsOfInputs(Tx(Head(txs)).inputs) \o PrevoutsOfTxs(Tail(txs))

\* The update of the spend marks that sets the flag whatever $1 is.
SpentInPoolUpdateSet(store, spent, keys) ==
    {IF RowKey(r) \in keys THEN [r EXCEPT !.spent_in_pool = TRUE] ELSE r :
       r \in store}

\* UPDATE account_utxos SET spent_in_pool=$1
\* WHERE (tx_hash, index) IN (SELECT unnest($2), unnest($3))
SpentInPoolUpdate(store, spent, keys) ==
    {IF RowKey(r) \in keys THEN [r EXCEPT !.spent_in_pool = spent] ELSE r :
       r \in store}

\* markPrevSpentInPool(ctx, spent, txs...): fail says the statement fails.
markPrevSpentInPool(store, spent, txs, fail) ==
    IF fail THEN [store |-> store, err |-> ErrorsNew(ErrPg)]
    ELSE [store |-> SpentInPoolUpdate(store, spent, SeqRange(PrevoutsOfTxs(txs))),
          err |-> Nil]

\* The txdb.Output values addAccountData builds from tx.Outputs.
TxdbOutputs(tx) ==
    [i \in 1..Len(Tx(tx).outputs) |->
       [hash |-> tx, index |-> i - 1, script |-> Tx(tx).outputs[i].script,
        manager_node_id |-> "", account_id |-> ""]]

\* The inner loop of loadAccountInfo keeping one output per script.
RECURSIVE OutsByScriptFirst(_, _)
OutsByScriptFirst(outs, row) ==
    IF outs = <<>> THEN <<>>
    ELSE IF Head(outs).script = row.pk_script
    THEN <<[Head(outs) EXCEPT !.manager_node_id = row.manager_node_id,
                              !.account_id = row.account_id]>>
    ELSE OutsByScriptFirst(Tail(outs), row)

\* The outputs of outs with the given script, annotated from one address row
\* (the inner loop of loadAccountInfo).
RECURSIVE OutsByScript(_, _)
OutsByScript(outs, row) ==
    IF outs = <<>> THEN <<>>
    ELSE (IF Head(outs).script = row.pk_script
          THEN <<[Head(outs) EXCEPT !.manager_node_id = row.manager_node_id,
                                    !.account_id = row.account_id]>>
          ELSE <<>>)
         \o OutsByScript(Tail(outs), row)

\* The scan loop of loadAccountInfo over the selected address rows.
RECURSIVE ScanRows(_, _)
ScanRows(rows, outs) ==
    IF rows = <<>> THEN <<>>
    ELSE OutsByScript(outs, Head(rows)) \o ScanRows(Tail(rows), outs)

\* loadAccountInfo: SELECT ... FROM addresses WHERE pk_script IN (scripts).
loadAccountInfo(outs, fail) ==
    LET scripts == {outs[i].script : i \in 1..Len(outs)}
        InScripts(row) == row.pk_script \in scripts
    IN  IF fail
        THEN [outs |-> <<>>,
              err |-> ErrorsWrap(ErrorsNew(ErrPg), <<"addresses select query">>)]
        ELSE [outs |-> ScanRows(SelectSeq(Addresses, InScripts), outs),
              err |-> Nil]

NewRow(out) ==
    [tx_hash |-> out.hash, index |-> out.index,
     manager_node_id |-> out.manager_node_id, account_id |-> out.account_id,
     script |-> out.script, spent_in_pool |-> FALSE,
     confirmed_in |-> NULL, block_pos |-> NULL]

\* INSERT INTO account_utxos ... SELECT * FROM outputs
\* ON CONFLICT (tx_hash, index) DO NOTHING, one proposed row after another.
RECURSIVE InsertOnConflictDoNothing(_, _)
InsertOnConflictDoNothing(store, outs) ==
    IF outs = <<>> THEN store
    ELSE InsertOnConflictDoNothing(
           IF \E r \in store : RowKey(r) = <<Head(outs).hash, Head(outs).index>>
           THEN store
           ELSE store \cup {NewRow(Head(outs))},
           Tail(outs))

\* A plain INSERT, without ON CONFLICT DO NOTHING: a proposed row whose key
\* is present violates the unique index and aborts the statement.
InsertQPlain(store, outs) ==
    IF \E k \in 1..Len(outs) : \E r \in store :
          RowKey(r) = <<outs[k].hash, outs[k].index>>
    THEN [store |-> store, err |-> ErrorsNew("pq: unique_violation")]
    ELSE [store |-> InsertOnConflictDoNothing(store, outs), err |-> Nil]

\* The statement of insertAccountOutputs as pg.Exec runs it.
InsertQ(store, outs) ==
    [store |-> InsertOnConflictDoNothing(store, outs), err |-> Nil]

\* insertAccountOutputs(ctx, outs).
insertAccountOutputs(store, outs, fail) ==
    Only({[store |-> q.store, err |-> ErrorsWrap(q.err, <<>>)] :
            q \in {IF fail THEN [store |-> store, err |-> ErrorsNew(ErrPg)]
                   ELSE InsertQ(store, outs)}})

\* What an insertAccountOutputs call was given and returned: whether the call
\* was reached, the Outpoints proposed, whether one of them was already
\* present, whether the statement failed in the database, and the root of the
\* error returned.
NoInsert ==
    [reached |-> FALSE, keys |-> {}, dup |-> FALSE, failed |-> FALSE,
     err |-> "nil"]

\* addAccountData(ctx, tx); dbf names the statement that fails (0: none).
addAccountData(store, tx, dbf) ==
    Only({
      IF m.err # Nil
      THEN [store |-> m.store, err |-> ErrorsWrap(m.err, <<>>), ins |-> NoInsert]
      ELSE Only({
        IF l.err # Nil
        THEN [store |-> m.store,
              err |-> ErrorsWrap(l.err, <<"loading account info from addresses">>),
              ins |-> NoInsert]
        ELSE Only({
          [store |-> i.store,
           err |-> ErrorsWrap(i.err, <<"updating pool outputs">>),
           ins |-> [reached |-> TRUE,
                    keys |-> {<<l.outs[k].hash, l.outs[k].index>> :
                                k \in 1..Len(l.outs)},
                    dup |-> \E k \in 1..Len(l.outs) : \E r \in m.store :
                               RowKey(r) = <<l.outs[k].hash, l.outs[k].index>>,
                    failed |-> (dbf = 3),
                    err |-> ErrorsRoot(i.err)]] :
          i \in {insertAccountOutputs(m.store, l.outs, dbf = 3)}}) :
        l \in {loadAccountInfo(TxdbOutputs(tx), dbf = 2)}}) :
      m \in {markPrevSpentInPool(store, TRUE, <<tx>>, dbf = 1)}})

\* The confirmation update without its WHERE clause: every row of the table
\* is given the height of the block.
ConfirmUpdateEveryRow(store, b) ==
    IF b.transactions = <<>> THEN store
    ELSE {[r EXCEPT !.confirmed_in = b.height,
                    !.block_pos =
                       IF r.tx_hash \in SeqRange(b.transactions)
                       THEN (CHOOSE i \in 1..Len(b.transactions) :
                               b.transactions[i] = r.tx_hash) - 1
                       ELSE 0] : r \in store}

\* The confirmation update with the position array left unread: every row
\* gets position 0.
ConfirmUpdatePosZero(store, b) ==
    {IF r.tx_hash \in SeqRange(b.transactions)
     THEN [r EXCEPT !.confirmed_in = b.height, !.block_pos = 0]
     ELSE r : r \in store}

\* UPDATE account_utxos SET confirmed_in=$3, block_pos=pos
\* FROM (SELECT unnest($1) AS txhash, unnest($2) AS pos) t WHERE tx_hash=txhash
ConfirmUpdate(store, b) ==
    LET txhash == [i \in 1..Len(b.transactions) |-> b.transactions[i]]
        pos == [i \in 1..Len(b.transactions) |-> i - 1]
        Match(r) == {i \in 1..Len(txhash) : txhash[i] = r.tx_hash}
    IN  {IF Match(r) # {}
         THEN [r EXCEPT !.confirmed_in = b.height,
                        !.block_pos = pos[CHOOSE i \in Match(r) : TRUE]]
         ELSE r : r \in store}

\* The log entries of addBlock's two statements.
BlockLog(b, err1, err2) ==
    (IF err1 # Nil
     THEN <<[at |-> "account utxos indexing block", block |-> b.height,
             error |-> err1]>>
     ELSE <<>>)
    \o (IF err2 # Nil
        THEN <<[at |-> "", block |-> b.height, error |-> err2]>>
        ELSE <<>>)

\* addBlock returning at the first failed statement.
addBlockReturnOnError(store, b, conflicts, fail) ==
    IF fail.confirm
    THEN [store |-> store, log |-> BlockLog(b, ErrorsNew(ErrPg), Nil),
          stmts |-> <<"confirm">>, returned |-> TRUE]
    ELSE Only({
           [store |-> m.store, log |-> BlockLog(b, Nil, m.err),
            stmts |-> <<"confirm", "release">>, returned |-> TRUE] :
           m \in {markPrevSpentInPool(ConfirmUpdate(store, b), FALSE,
                                      conflicts, fail.release)}})

\* addBlock without the confirmation update.
addBlockUnindexed(store, b, conflicts, fail) ==
    Only({
      [store |-> m.store,
       log |-> BlockLog(b, IF fail.confirm THEN ErrorsNew(ErrPg) ELSE Nil,
                        m.err),
       stmts |-> <<"confirm", "release">>, returned |-> TRUE] :
      m \in {markPrevSpentInPool(store, FALSE, conflicts, fail.release)}})

\* addBlock(ctx, b, conflicts); fail says which of its statements fail.
addBlock(store, b, conflicts, fail) ==
    Only({
      [store |-> m.store,
       log |-> BlockLog(b, IF fail.confirm THEN ErrorsNew(ErrPg) ELSE Nil,
                        m.err),
       stmts |-> <<"confirm", "release">>, returned |-> TRUE] :
      m \in {markPrevSpentInPool(
               IF fail.confirm THEN store ELSE ConfirmUpdate(store, b),
               FALSE, conflicts, fail.release)}})

(* ------------------------ ledger engine (fc) --------------------------- *)

\* The chain is the sequence of landed blocks [height, transactions]; the
\* pool is the set of submitted, unconfirmed transactions.
ConfirmedTxs(chain) ==
    UNION {SeqRange(chain[h].transactions) : h \in 1..Len(chain)}

Prevouts(tx) == SeqRange(PrevoutsOfInputs(Tx(tx).inputs))

\* Consensus validation of tx against the chain and the pool: every spent
\* output exists and no confirmed transaction spends it.
ValidTx(tx, pool, chain) ==
    \A p \in Prevouts(tx) :
       /\ p[1] \in pool \cup ConfirmedTxs(chain)
       /\ p[2] < Len(Tx(p[1]).outputs)
       /\ \A t \in ConfirmedTxs(chain) \ {tx} : p \notin Prevouts(t)

ValidationError ==
    [root |-> ErrBadTx, detail |-> <<"prevout spent or missing">>,
     msg |-> <<"validate tx">>]

\* fc.AddTx(ctx, tx): a known transaction is accepted again (idempotent by
\* hash); an accepted transaction enters the pool and the tx callback
\* (addAccountData) runs for it, its error being the call's error.
AddTx(L, tx, env) ==
    IF env.transport
    THEN [pool |-> L.pool, store |-> L.store,
          err |-> ErrorsNew("connection refused"), ins |-> NoInsert]
    ELSE IF tx \notin L.pool \cup ConfirmedTxs(L.chain)
            /\ ~ValidTx(tx, L.pool, L.chain)
    THEN [pool |-> L.pool, store |-> L.store,
          err |-> ValidationError, ins |-> NoInsert]
    ELSE Only({
           [pool |-> IF tx \in ConfirmedTxs(L.chain) THEN L.pool
                     ELSE L.pool \cup {tx},
            store |-> cb.store, err |-> cb.err, ins |-> cb.ins] :
           cb \in {addAccountData(L.store, tx, env.dbf)}})

\* fc.LatestBlock(ctx): the latest block, nil when the chain is empty.
LatestBlock(ch, fail) ==
    IF fail
    THEN [isnil |-> TRUE, height |-> 0, err |-> ErrorsNew("connection refused")]
    ELSE [isnil |-> ch = <<>>, height |-> Len(ch), err |-> Nil]

\* How far beyond the chain's height a height may be waited for.
Slop == 3

\* fc.WaitForBlock(ctx, height): suspended until the block at height has
\* landed; fails at once for a height in the distant future.
WaitForBlock(ch, height) ==
    IF height > Len(ch) + Slop
    THEN [returns |-> TRUE, err |-> ErrorsNew(ErrTheDistantFuture)]
    ELSE [returns |-> Len(ch) >= height, err |-> Nil]

\* fc.GetTxs(ctx, hash) looks the hash up in the pool, then in the chain.
GetPoolTxs(pl, hash) == hash \in pl

GetBcTxs(ch, hash) == hash \in ConfirmedTxs(ch)

\* rpcclient.Submit(ctx, tx): the relay to the Generator.
Submit(tx, fail) == IF fail THEN ErrorsNew("rpc failure") ELSE Nil

\* txbuilder.AssembleSignatures(template).
AssembleSignatures(tmpl) ==
    IF tmpl.sigsOK THEN [msg |-> tmpl.tx, err |-> Nil]
    ELSE [msg |-> "", err |-> ErrorsNew("insufficient signatures")]

TooManySignatures(tmpl) == tmpl.nsigs > Len(Tx(tmpl.tx).inputs)

(* ------------------------- finalize pipeline --------------------------- *)

\* The values of the package variable Generator (*string).
GeneratorValues ==
    {[isnil |-> TRUE, val |-> ""], [isnil |-> FALSE, val |-> ""],
     [isnil |-> FALSE, val |-> "generator:1999"]}

\* What publishTx returns after AddTx returned a: calls lists the
\* collaborator calls made, in order; engineErr and relayErr are the errors
\* AddTx and Submit returned.
Published(a, calls, relayErr, err) ==
    [pool |-> a.pool, store |-> a.store, ins |-> a.ins, calls |-> calls,
     log |-> IF relayErr # Nil THEN <<err>> ELSE <<>>, engineErr |-> a.err,
     relayErr |-> relayErr, err |-> err]

\* The relay of publishTx, after AddTx succeeded.
Relay(a, gen, msg, env) ==
    IF ~gen.isnil /\ gen.val # ""
    THEN Published(a, <<"AddTx", "Submit">>, Submit(msg, env.relayFails),
                   ErrorsWrap(Submit(msg, env.relayFails),
                              <<"generator transaction notice">>))
    ELSE Published(a, <<"AddTx">>, Nil, Nil)

\* publishTx without the classification of validation failures.
publishTxUnclassified(L, gen, msg, env) ==
    Only({
      IF a.err # Nil
      THEN Published(a, <<"AddTx">>, Nil,
                     ErrorsWrap(a.err, <<"add tx to blockchain">>))
      ELSE Relay(a, gen, msg, env) :
      a \in {AddTx(L, msg, env)}})

\* publishTx taking the transaction out of the pool again when the relay fails.
publishTxRollback(L, gen, msg, env) ==
    Only({
      IF ErrorsRoot(a.err) = ErrBadTx
      THEN Published(a, <<"AddTx">>, Nil,
                     ErrorsWithDetail(
                       ErrorsWrap(ErrBadTxTemplate, ErrorsText(a.err)),
                       ErrorsDetail(a.err)))
      ELSE IF a.err # Nil
      THEN Published(a, <<"AddTx">>, Nil,
                     ErrorsWrap(a.err, <<"add tx to blockchain">>))
      ELSE IF Relay(a, gen, msg, env).relayErr # Nil
      THEN [Relay(a, gen, msg, env) EXCEPT !.pool = L.pool \ {msg}]
      ELSE Relay(a, gen, msg, env) :
      a \in {AddTx(L, msg, env)}})

\* publishTx(ctx, msg).
publishTx(L, gen, msg, env) ==
    Only({
      IF ErrorsRoot(a.err) = ErrBadTx
      THEN Published(a, <<"AddTx">>, Nil,
                     ErrorsWithDetail(
                       ErrorsWrap(ErrBadTxTemplate, ErrorsText(a.err)),
                       ErrorsDetail(a.err)))
      ELSE IF a.err # Nil
      THEN Published(a, <<"AddTx">>, Nil,
                     ErrorsWrap(a.err, <<"add tx to blockchain">>))
      ELSE Relay(a, gen, msg, env) :
      a \in {AddTx(L, msg, env)}})

\* What FinalizeTx returns when it returns before publishTx.
Unpublished(L, err) ==
    [pool |-> L.pool, store |-> L.store, ins |-> NoInsert, calls |-> <<>>,
     log |-> <<>>, engineErr |-> Nil, relayErr |-> Nil, tx |-> "",
     submitted |-> "", err |-> err]

\* What FinalizeTx returns after publishTx returned pub for msg.
Finalized(pub, msg, marshalFails) ==
    [pool |-> pub.pool, store |-> pub.store, ins |-> pub.ins,
     calls |-> pub.calls, log |-> pub.log, engineErr |-> pub.engineErr,
     relayErr |-> pub.relayErr, submitted |-> msg,
     tx |-> IF pub.err # Nil THEN "" ELSE msg,
     err |-> IF pub.err # Nil /\ ~marshalFails
             THEN ErrorsWrap(pub.err, <<"tx=", msg>>)
             ELSE pub.err]

\* FinalizeTx without the check of the template's length.
FinalizeTxUnchecked(L, gen, tmpl, env) ==
    IF AssembleSignatures(tmpl).err # Nil
    THEN Unpublished(L, ErrorsWithDetail(
                          ErrBadTxTemplate,
                          ErrorsText(AssembleSignatures(tmpl).err)))
    ELSE Only({Finalized(pub, AssembleSignatures(tmpl).msg, env.marshalFails) :
                 pub \in {publishTx(L, gen, AssembleSignatures(tmpl).msg, env)}})

\* FinalizeTx(ctx, txTemplate).  tx is the transaction returned ("" for nil),
\* submitted the argument handed to AddTx ("" when AddTx was not called).
FinalizeTx(L, gen, tmpl, env) ==
    IF tmpl.nsigs > Len(Tx(tmpl.tx).inputs)
    THEN Unpublished(L, ErrorsWithDetail(ErrBadTxTemplate,
                                         <<"too many inputs in template">>))
    ELSE IF AssembleSignatures(tmpl).err # Nil
    THEN Unpublished(L, ErrorsWithDetail(
                          ErrBadTxTemplate,
                          ErrorsText(AssembleSignatures(tmpl).err)))
    ELSE Only({Finalized(pub, AssembleSignatures(tmpl).msg, env.marshalFails) :
                 pub \in {publishTx(L, gen, AssembleSignatures(tmpl).msg, env)}})

\* A failed GetTxs call taken for an answer with empty maps.
GetTxsFailedRejected(err) == [ret |-> "", err |-> ErrRejected]

\* FinalizeTxWait when GetTxs returns an error, lines 102-104.
GetTxsFailed(err) ==
    [ret |-> "", err |-> ErrorsWrap(err, <<"getting pool/bc txs">>)]

\* The next height skipping one.
NextHeightSkip(height) == height + 2

\* height++, line 84.
NextHeight(height) == height + 1

\* The send on a channel without a buffer: it waits for a receiver.
SendProceedsUnbuffered(buffered, receiving) == receiving

\* c <- ..., line 120, on the channel made at line 119 with capacity 1: the
\* send proceeds when the buffer has room or a receiver waits on the channel.
\* buffered is the number of values in the buffer.
SendProceeds(buffered, receiving) == buffered < 1 \/ receiving

\* waitBlock starting the task of the next height as well.
waitBlockAhead(ts, height) ==
    ts \cup {[height |-> height, sent |-> FALSE, err |-> Nil],
             [height |-> height + 1, sent |-> FALSE, err |-> Nil]}

\* waitBlock(ctx, height), lines 118-122: a channel of capacity 1 is made and
\* a goroutine started that sends the result of WaitForBlock on it.  ts are
\* the goroutines started and not yet received from.
waitBlock(ts, height) ==
    ts \cup {[height |-> height, sent |-> FALSE, err |-> Nil]}

\* The height captured one too high.
CapturedHeightNext(b) == IF b.isnil THEN 1 ELSE b.height + 1

\* The height FinalizeTxWait starts from, lines 65 and 74-76: 0 when there is
\* no latest block.
CapturedHeight(b) == IF b.isnil THEN 0 ELSE b.height

\* The select case of FinalizeTxWait taken when ctx is done: err is ctx.Err().
CtxDoneRejected(err) == [ret |-> "", err |-> ErrRejected]

CtxDone(err) == [ret |-> "", err |-> err]

\* What FinalizeTxWait makes of a GetTxs answer, with the pool looked at first.
ObserveTxPoolFirst(tx, inPool, inChain) ==
    IF ~inPool THEN [pc |-> "done", ret |-> "", err |-> ErrRejected]
    ELSE IF inChain THEN [pc |-> "done", ret |-> tx, err |-> Nil]
    ELSE [pc |-> "loop", ret |-> "", err |-> Nil]

\* What FinalizeTxWait makes of a GetTxs answer, rejecting what is in the pool.
ObserveTxPoolRejected(tx, inPool, inChain) ==
    IF inChain THEN [pc |-> "done", ret |-> tx, err |-> Nil]
    ELSE IF inPool THEN [pc |-> "done", ret |-> "", err |-> ErrRejected]
    ELSE [pc |-> "loop", ret |-> "", err |-> Nil]

\* What FinalizeTxWait makes of a GetTxs answer: confirmed, rejected, or
\* still in the pool (iterate).
ObserveTx(tx, inPool, inChain) ==
    IF inChain THEN [pc |-> "done", ret |-> tx, err |-> Nil]
    ELSE IF ~inPool THEN [pc |-> "done", ret |-> "", err |-> ErrRejected]
    ELSE [pc |-> "loop", ret |-> "", err |-> Nil]

(* ------------------------------- state --------------------------------- *)

VARIABLES
    account_utxos,  \* the rows of the account_utxos table
    pool,           \* fc: the transactions in the pool
    chain,          \* fc: the landed blocks, with the conflicts each displaced
    Generator,      \* the package variable Generator
    w,              \* the FinalizeTxWait call: position, locals, result
    ctx,            \* ctx.Err() of the call's context (nil while it is live)
    tasks,          \* the goroutines of waitBlock and their channels
    last,           \* the most recent call of a handler: arguments and results
    ncalls,         \* the FinalizeTx calls made so far
    nfaults,        \* the collaborator failures so far
    materialized,   \* the Outpoints an executed insert statement proposed
    inflight,       \* the tx callbacks fc.AddTx has yet to finish
    addrIndex       \* two AddrIndex values and the keys toKeyIndex made of them

vars ==
    <<account_utxos, pool, chain, Generator, w, ctx, tasks, last, ncalls,
      nfaults, materialized, inflight, addrIndex>>

Templates ==
    [tx : TxHashes, nsigs : 0..MaxSigs, sigsOK : BOOLEAN]

\* The templates that carry one good signature entry for every input.
SignedTemplates ==
    {t \in Templates : t.sigsOK /\ t.nsigs = Len(Tx(t.tx).inputs)}

\* What the collaborators do during one FinalizeTx call: AddTx fails in
\* transport, statement dbf of the tx callback fails, the relay fails, the
\* transaction's MarshalText fails.
FinalizeEnvs ==
    [transport : BOOLEAN, dbf : 0..3, relayFails : BOOLEAN,
     marshalFails : BOOLEAN]

NoFaults ==
    [transport |-> FALSE, dbf |-> 0, relayFails |-> FALSE,
     marshalFails |-> FALSE]

Count(b) == IF b THEN 1 ELSE 0

FinalizeFaults(env) ==
    Count(env.transport) + Count(env.dbf # 0) + Count(env.relayFails)
    + Count(env.marshalFails)

\* The failures of env are failures of calls the FinalizeTx call f made: of
\* AddTx, of a statement of the tx callback, of Submit, of MarshalText.
Happened(f, env) ==
    /\ env.transport => f.calls # <<>>
    /\ env.dbf # 0 => /\ f.calls # <<>>
                      /\ ~env.transport
                      /\ ErrorsRoot(f.engineErr) # ErrBadTx
    /\ env.relayFails => f.calls = <<"AddTx", "Submit">>
    /\ env.marshalFails => (f.calls # <<>> /\ f.err # Nil)

NoTemplate == [tx |-> "", nsigs |-> 0, sigsOK |-> FALSE]

NoCall ==
    [op |-> "none", tmpl |-> NoTemplate, height |-> 0, txs |-> <<>>,
     conflicts |-> <<>>, err |-> Nil, tx |-> "", submitted |-> "",
     engineErr |-> Nil, relayErr |-> Nil,
     calls |-> <<>>, ins |-> <<>>, stmts |-> <<>>, log |-> <<>>,
     fail |-> [confirm |-> FALSE, release |-> FALSE], pre |-> {},
     spent |-> FALSE, repeat |-> FALSE, returned |-> FALSE]

\* The Outpoints the executed insert statements of a call proposed.
Proposed(ins) ==
    UNION {IF ins[i].reached /\ ~ins[i].failed THEN ins[i].keys ELSE {} :
             i \in 1..Len(ins)}

Ledger == [pool |-> pool, chain |-> chain, store |-> account_utxos]

\* The GetTxs call of an iteration: asked (the pool was read), done (the call
\* returned), and what it reported.
NoQuery ==
    [asked |-> FALSE, done |-> FALSE, height |-> 0, inPool |-> FALSE,
     inChain |-> FALSE, err |-> Nil]

\* No AddrIndex value has been packed.
NoKeys ==
    [i1 |-> <<0, 0>>, i2 |-> <<0, 0>>, k1 |-> 0, k2 |-> 0, packed |-> FALSE]

\* FinalizeTxWait before it is called.  height, tx: its locals; start: the
\* chain's height when LatestBlock was called; err, ret: what
\* it returned; notified: the height of the last block-landing notification
\* it received; q: the GetTxs query of the current iteration; inLoop, landed:
\* whether it returned from the loop and the chain's height when it did.
Idle ==
    [pc |-> "idle", tmpl |-> NoTemplate, height |-> 0, tx |-> "", err |-> Nil,
     ret |-> "", notified |-> 0, q |-> NoQuery, inLoop |-> FALSE,
     landed |-> 0, start |-> 0]

Init ==
    /\ account_utxos = {}
    /\ pool = {}
    /\ chain = <<>>
    /\ Generator \in GeneratorValues
    /\ w = Idle
    /\ ctx = Nil
    /\ tasks = {}
    /\ last = NoCall
    /\ ncalls = 0
    /\ nfaults = 0
    /\ materialized = {}
    /\ inflight = {}
    /\ addrIndex = NoKeys

(* ------------------------------ handlers ------------------------------- *)

\* A client calls FinalizeTx with a template of Ts, the collaborators
\* behaving as one of Es.
FinalizeTxCall(Ts, Es) ==
    /\ ncalls < MaxCalls
    /\ ncalls' = ncalls + 1
    /\ \E tmpl \in Ts,
          env \in {e \in Es : nfaults + FinalizeFaults(e) <= MaxFaults} :
       \E f \in {FinalizeTx(Ledger, Generator, tmpl, env)} :
           /\ Happened(f, env)
           /\ nfaults' = nfaults + FinalizeFaults(env)
           /\ account_utxos' = f.store
           /\ pool' = f.pool
           /\ last' = [NoCall EXCEPT
                         !.op = "FinalizeTx", !.tmpl = tmpl, !.err = f.err,
                         !.tx = f.tx, !.submitted = f.submitted,
                         !.calls = f.calls, !.ins = <<f.ins>>, !.log = f.log,
                         !.engineErr = f.engineErr, !.relayErr = f.relayErr,
                         !.returned = TRUE,
                         !.repeat = /\ last.op = "FinalizeTx"
                                    /\ last.tmpl = tmpl
                                    /\ last.relayErr # Nil]
           /\ materialized' = materialized \cup Proposed(<<f.ins>>)
    /\ UNCHANGED <<chain, Generator, w, ctx, tasks, inflight, addrIndex>>

ClientFinalizeTx == FinalizeTxCall(Templates, FinalizeEnvs)

\* The sequences without repetition over the set S.
Arrangements(S) ==
    UNION {{q \in [1..n -> S] : \A i, j \in 1..n : i # j => q[i] # q[j]} :
             n \in 0..Cardinality(S)}

\* A block the engine can land on the chain: unconfirmed transactions, each
\* valid after the ones before it, no two spending the same output.
RECURSIVE ValidBlock(_, _, _)
ValidBlock(txs, k, ch) ==
    IF k > Len(txs) THEN TRUE
    ELSE /\ \A p \in Prevouts(txs[k]) :
              /\ p[1] \in ConfirmedTxs(ch) \cup {txs[i] : i \in 1..(k - 1)}
              /\ \A t \in ConfirmedTxs(ch) \cup {txs[i] : i \in 1..(k - 1)} :
                    p \notin Prevouts(t)
         /\ ValidBlock(txs, k + 1, ch)

RECURSIVE SetToSeq(_)
SetToSeq(S) ==
    IF S = {} THEN <<>>
    ELSE LET x == CHOOSE x \in S : TRUE IN <<x>> \o SetToSeq(S \ {x})

\* The pool transactions a block displaces: those outside the block that
\* spend an output a transaction of the block spends.
ConflictsOf(txs, pl) ==
    SetToSeq({t \in pl \ SeqRange(txs) :
                \E u \in SeqRange(txs) : Prevouts(t) \cap Prevouts(u) # {}})

\* The tx callbacks of the transactions of a block, in block order.
RECURSIVE TxCallbacks(_, _, _)
TxCallbacks(store, txs, dbf) ==
    IF txs = <<>> THEN [store |-> store, ins |-> <<>>]
    ELSE Only({
           Only({[store |-> rest.store, ins |-> <<cb.ins>> \o rest.ins] :
                   rest \in {TxCallbacks(cb.store, Tail(txs), dbf)}}) :
           cb \in {addAccountData(store, Head(txs), dbf)}})

AddBlockFails == [confirm : BOOLEAN, release : BOOLEAN]

NoFail == [confirm |-> FALSE, release |-> FALSE]

AddBlockFaults(dbf, fail) ==
    Count(dbf # 0) + Count(fail.confirm) + Count(fail.release)

\* The engine lands the next block: it runs the tx callback for every
\* transaction of the block, then the block callback addBlock, and only then
\* makes the height visible to the waiters.  indexed records that no statement
\* of the tx callbacks or of the confirmation update failed.  Ds and Fs: the
\* failures of the callbacks' statements (a statement of the tx callbacks fails only when
\* the block has a transaction).
LandBlockCall(Ds, Fs) ==
    /\ Len(chain) < MaxHeight
    /\ \E txs \in {q \in Arrangements(TxHashes \ ConfirmedTxs(chain)) :
                       ValidBlock(q, 1, chain)},
          dbf \in Ds, fail \in Fs :
         /\ dbf # 0 => txs # <<>>
         /\ nfaults + AddBlockFaults(dbf, fail) <= MaxFaults
         /\ nfaults' = nfaults + AddBlockFaults(dbf, fail)
         /\ \E b \in {[height |-> Len(chain) + 1, transactions |-> txs,
                       conflicts |-> ConflictsOf(txs, pool),
                       indexed |-> dbf = 0 /\ ~fail.confirm]} :
            \E cbs \in {TxCallbacks(account_utxos, txs, dbf)} :
            \E r \in {addBlock(cbs.store, b, b.conflicts, fail)} :
                /\ account_utxos' = r.store
                /\ chain' = Append(chain, b)
                /\ pool' = (pool \ SeqRange(txs)) \ SeqRange(b.conflicts)
                /\ last' = [NoCall EXCEPT
                              !.op = "addBlock", !.height = b.height,
                              !.txs = txs, !.conflicts = b.conflicts,
                              !.ins = cbs.ins, !.stmts = r.stmts,
                              !.log = r.log, !.fail = fail,
                              !.returned = r.returned]
                /\ materialized' = materialized \cup Proposed(cbs.ins)
    /\ UNCHANGED <<Generator, ncalls, w, ctx, tasks, inflight, addrIndex>>

LandBlock == LandBlockCall(0..3, AddBlockFails)

\* The engine delivers the block callback of the latest block once more.
RedeliverBlock ==
    /\ chain # <<>>
    /\ \E fail \in AddBlockFails :
         /\ nfaults + AddBlockFaults(0, fail) <= MaxFaults
         /\ nfaults' = nfaults + AddBlockFaults(0, fail)
         /\ \E b \in {chain[Len(chain)]} :
            \E r \in {addBlock(account_utxos, b, b.conflicts, fail)} :
                /\ account_utxos' = r.store
                /\ last' = [NoCall EXCEPT
                           !.op = "addBlock", !.height = b.height,
                           !.txs = b.transactions, !.conflicts = b.conflicts,
                           !.stmts = r.stmts, !.log = r.log, !.fail = fail,
                           !.pre = account_utxos, !.returned = r.returned,
                           !.repeat = /\ last.op = "addBlock"
                                      /\ last.height = b.height
                                      /\ ~last.fail.confirm
                                      /\ ~last.fail.release]
    /\ UNCHANGED <<pool, chain, Generator, ncalls, materialized, w, ctx, tasks, inflight,
                   addrIndex>>

Next == ClientFinalizeTx \/ LandBlock \/ RedeliverBlock

Spec == Init /\ [][Next]_vars

(* ------------------- the spend marks, call by call ---------------------- *)

\* The handlers with every collaborator succeeding.
SubmitTx == FinalizeTxCall(SignedTemplates, {NoFaults})

BlockLands == LandBlockCall({0}, {NoFail})

\* markPrevSpentInPool(ctx, true, tx), as addAccountData calls it.
MarkSpent ==
    /\ \E tx \in TxHashes :
         \E m \in {markPrevSpentInPool(account_utxos, TRUE, <<tx>>, FALSE)} :
             /\ account_utxos' = m.store
             /\ last' = [NoCall EXCEPT
                           !.op = "markPrevSpentInPool", !.spent = TRUE,
                           !.txs = <<tx>>, !.err = m.err,
                           !.pre = account_utxos, !.returned = TRUE]
    /\ UNCHANGED <<pool, chain, Generator, ncalls, nfaults, materialized, w,
                   ctx, tasks, inflight, addrIndex>>

\* markPrevSpentInPool(ctx, false, tx), as addBlock calls it, right after the
\* call that marked the same transaction; pre stays the store before that.
MarkUnspent ==
    /\ last.op = "markPrevSpentInPool"
    /\ last.spent
    /\ \E m \in {markPrevSpentInPool(account_utxos, FALSE, last.txs, FALSE)} :
           /\ account_utxos' = m.store
           /\ last' = [last EXCEPT !.spent = FALSE, !.err = m.err,
                                   !.repeat = TRUE]
    /\ UNCHANGED <<pool, chain, Generator, ncalls, nfaults, materialized, w,
                   ctx, tasks, inflight, addrIndex>>

NextMark == SubmitTx \/ BlockLands \/ MarkSpent \/ MarkUnspent

SpecMark == Init /\ [][NextMark]_vars

(* ---------------------- the confirmation waiter ------------------------ *)

\* FinalizeTxWait returns.
Return(ret, err, inLoop) ==
    [w EXCEPT !.pc = "done", !.ret = ret, !.err = err, !.inLoop = inLoop,
              !.landed = Len(chain)]

\* A client calls FinalizeTxWait with a signed template: lines 65-76, up to
\* the return of LatestBlock.
WStart ==
    /\ w.pc = "idle"
    /\ \E tmpl \in SignedTemplates, fail \in BOOLEAN :
         /\ nfaults + Count(fail) <= MaxFaults
         /\ nfaults' = nfaults + Count(fail)
         /\ \E b \in {LatestBlock(chain, fail)} :
              w' = IF b.err # Nil
                   THEN [Return("", ErrorsWrap(b.err, <<"getting latest block">>),
                                FALSE) EXCEPT !.tmpl = tmpl]
                   ELSE [w EXCEPT !.pc = "finalize", !.tmpl = tmpl,
                                  !.height = CapturedHeight(b),
                                  !.start = Len(chain)]
    /\ UNCHANGED <<account_utxos, pool, chain, Generator, ctx, tasks, last,
                   ncalls, materialized, inflight, addrIndex>>

\* The waiter's FinalizeTx call, lines 78-81.
WFinalize ==
    /\ w.pc = "finalize"
    /\ ncalls < MaxCalls
    /\ ncalls' = ncalls + 1
    /\ \E env \in {e \in FinalizeEnvs : nfaults + FinalizeFaults(e) <= MaxFaults} :
       \E f \in {FinalizeTx(Ledger, Generator, w.tmpl, env)} :
           /\ Happened(f, env)
           /\ nfaults' = nfaults + FinalizeFaults(env)
           /\ account_utxos' = f.store
           /\ pool' = f.pool
           /\ last' = [NoCall EXCEPT
                         !.op = "FinalizeTx", !.tmpl = w.tmpl, !.err = f.err,
                         !.tx = f.tx, !.submitted = f.submitted,
                         !.calls = f.calls, !.ins = <<f.ins>>, !.log = f.log,
                         !.engineErr = f.engineErr, !.relayErr = f.relayErr,
                         !.returned = TRUE,
                         !.repeat = /\ last.op = "FinalizeTx"
                                    /\ last.tmpl = w.tmpl
                                    /\ last.relayErr # Nil]
           /\ materialized' = materialized \cup Proposed(<<f.ins>>)
           /\ w' = IF f.err # Nil THEN Return("", f.err, FALSE)
                   ELSE [w EXCEPT !.pc = "loop", !.tx = f.tx]
    /\ UNCHANGED <<chain, Generator, ctx, tasks, inflight, addrIndex>>

\* The head of an iteration, lines 84-85 and waitBlock: height++, and the
\* goroutine of waitBlock is started with its channel.
WLoop ==
    /\ w.pc = "loop"
    /\ w' = [w EXCEPT !.pc = "select", !.height = NextHeight(@),
                      !.q = NoQuery]
    /\ tasks' = waitBlock(tasks, NextHeight(w.height))
    /\ UNCHANGED <<account_utxos, pool, chain, Generator, ctx, last, ncalls,
                   nfaults, materialized, inflight, addrIndex>>

\* The goroutine of waitBlock: WaitForBlock returns and its result is sent on
\* the channel (of capacity 1, so the send never blocks).
WaitBlockSend ==
    /\ \E t \in tasks :
         /\ ~t.sent
         /\ WaitForBlock(chain, t.height).returns
         /\ SendProceeds(0, w.pc = "select" /\ w.height = t.height)
         /\ tasks' = (tasks \ {t})
                       \cup {[t EXCEPT !.sent = TRUE,
                                       !.err = WaitForBlock(chain, t.height).err]}
    /\ UNCHANGED <<account_utxos, pool, chain, Generator, w, ctx, last, ncalls,
                   nfaults, materialized, inflight, addrIndex>>

\* The select case <-ctx.Done(), lines 86-87.
WCtxDone ==
    /\ w.pc = "select"
    /\ ctx # Nil
    /\ w' = Return(CtxDone(ctx).ret, CtxDone(ctx).err, TRUE)
    /\ UNCHANGED <<account_utxos, pool, chain, Generator, ctx, tasks, last,
                   ncalls, nfaults, materialized, inflight, addrIndex>>

\* The select case <-waitBlock(ctx, height), lines 89-95.
WRecv ==
    /\ w.pc = "select"
    /\ \E t \in tasks :
         /\ t.height = w.height
         /\ t.sent
         /\ tasks' = tasks \ {t}
         /\ w' = IF t.err # Nil
                 THEN Return("", ErrorsWrap(t.err, <<"waiting for block %d">>),
                             TRUE)
                 ELSE [w EXCEPT !.pc = "gettxs", !.notified = w.height]
    /\ UNCHANGED <<account_utxos, pool, chain, Generator, ctx, last, ncalls,
                   nfaults, materialized, inflight, addrIndex>>

\* fc.GetTxs, line 101, first half: the engine looks the hash up in the pool.
WGetPool ==
    /\ w.pc = "gettxs"
    /\ \E fail \in BOOLEAN :
         /\ nfaults + Count(fail) <= MaxFaults
         /\ nfaults' = nfaults + Count(fail)
         /\ w' = IF fail
                 THEN [Return(GetTxsFailed(ErrorsNew(ErrPg)).ret,
                              GetTxsFailed(ErrorsNew(ErrPg)).err, TRUE)
                         EXCEPT !.q = [NoQuery EXCEPT
                                         !.asked = TRUE, !.done = TRUE,
                                         !.height = w.height,
                                         !.err = ErrorsNew(ErrPg)]]
                 ELSE [w EXCEPT !.pc = "gettxs2",
                                !.q = [NoQuery EXCEPT
                                         !.asked = TRUE, !.height = w.height,
                                         !.inPool = GetPoolTxs(pool, w.tx)]]
    /\ UNCHANGED <<account_utxos, pool, chain, Generator, ctx, tasks, last,
                   ncalls, materialized, inflight, addrIndex>>

\* fc.GetTxs, second half, and lines 102-113: the engine looks the hash up in
\* the chain, and the waiter decides on the answer.
WGetChain ==
    /\ w.pc = "gettxs2"
    /\ \E fail \in BOOLEAN :
         /\ nfaults + Count(fail) <= MaxFaults
         /\ nfaults' = nfaults + Count(fail)
         /\ w' = IF fail
                 THEN [Return(GetTxsFailed(ErrorsNew(ErrPg)).ret,
                              GetTxsFailed(ErrorsNew(ErrPg)).err, TRUE)
                         EXCEPT !.q = [w.q EXCEPT !.done = TRUE,
                                                  !.err = ErrorsNew(ErrPg)]]
                 ELSE Only({
                        IF o.pc = "done"
                        THEN [Return(o.ret, o.err, TRUE) EXCEPT
                                !.q = [w.q EXCEPT !.done = TRUE,
                                          !.inChain = GetBcTxs(chain, w.tx)]]
                        ELSE [w EXCEPT !.pc = "loop",
                                       !.q = [w.q EXCEPT !.done = TRUE,
                                                 !.inChain = FALSE]] :
                        o \in {ObserveTx(w.tx, w.q.inPool,
                                         GetBcTxs(chain, w.tx))}})
    /\ UNCHANGED <<account_utxos, pool, chain, Generator, ctx, tasks, last,
                   ncalls, materialized, inflight, addrIndex>>

\* The caller's context ends while the call is in progress: its deadline
\* passes or the caller cancels it.
CtxEnd ==
    /\ w.pc \notin {"idle", "done"}
    /\ ctx = Nil
    /\ ctx' \in {ErrorsNew(DeadlineExceeded), ErrorsNew(Canceled)}
    /\ UNCHANGED <<account_utxos, pool, chain, Generator, w, tasks, last,
                   ncalls, nfaults, materialized, inflight, addrIndex>>

NextWait ==
    \/ WStart
    \/ WFinalize
    \/ WLoop
    \/ WaitBlockSend
    \/ WCtxDone
    \/ WRecv
    \/ WGetPool
    \/ WGetChain
    \/ CtxEnd
    \/ SubmitTx
    \/ BlockLands

SpecWait == Init /\ [][NextWait]_vars

\* The waiter, the only client, beside block landings whose statements may
\* fail.
NextOrder ==
    \/ WStart
    \/ WFinalize
    \/ WLoop
    \/ WaitBlockSend
    \/ WCtxDone
    \/ WRecv
    \/ WGetPool
    \/ WGetChain
    \/ CtxEnd
    \/ LandBlock

SpecOrder == Init /\ [][NextOrder]_vars

\* The goroutine of FinalizeTxWait and the goroutines of waitBlock are
\* scheduled: a step of theirs that stays possible is taken.
WaiterFairness ==
    /\ WF_vars(WLoop)
    /\ WF_vars(WaitBlockSend)
    /\ WF_vars(WRecv)
    /\ WF_vars(WGetPool)
    /\ WF_vars(WGetChain)

SpecLive == Init /\ [][NextWait]_vars /\ WaiterFairness

(* --------------- tx callbacks racing with block landings --------------- *)

\* fc.AddTx up to its tx callback: a known transaction is accepted again, a
\* new one when it is valid against the chain.
AddTxAccepts(L, tx) ==
    tx \in L.pool \cup ConfirmedTxs(L.chain) \/ ValidTx(tx, L.pool, L.chain)

\* The rows of the outputs the transactions of a landed block spend are
\* deleted from the table by the time addBlock runs (comment at lines
\* 176-178).
DeleteSpent(store, txs) ==
    {r \in store : \A t \in SeqRange(txs) : RowKey(r) \notin Prevouts(t)}

\* The tx callbacks of fc.AddTx that have not returned.
InFlight(tx) == \E c \in inflight : c.tx = tx

\* A FinalizeTx call reaches fc.AddTx (line 125): the engine accepts the
\* transaction into the pool; its tx callback has yet to run.
RaceAddTx ==
    /\ ncalls < MaxCalls
    /\ ncalls' = ncalls + 1
    /\ \E tx \in RaceTxHashes :
         /\ ~InFlight(tx)
         /\ AddTxAccepts(Ledger, tx)
         /\ pool' = IF tx \in ConfirmedTxs(chain) THEN pool ELSE pool \cup {tx}
         /\ inflight' = inflight \cup {[tx |-> tx, pc |-> "mark"]}
    /\ UNCHANGED <<account_utxos, chain, Generator, w, ctx, tasks, last,
                   nfaults, materialized, addrIndex>>

\* The first statement of the callback addAccountData, lines 191-194.
RaceMark ==
    /\ \E c \in inflight :
         /\ c.pc = "mark"
         /\ account_utxos' =
               markPrevSpentInPool(account_utxos, TRUE, <<c.tx>>, FALSE).store
         /\ inflight' = (inflight \ {c}) \cup {[c EXCEPT !.pc = "insert"]}
    /\ UNCHANGED <<pool, chain, Generator, w, ctx, tasks, last, ncalls,
                   nfaults, materialized, addrIndex>>

\* The rest of addAccountData, lines 196-213, and its return.
RaceInsert ==
    /\ \E c \in inflight :
         /\ c.pc = "insert"
         /\ account_utxos' =
               insertAccountOutputs(
                 account_utxos,
                 loadAccountInfo(TxdbOutputs(c.tx), FALSE).outs, FALSE).store
         /\ inflight' = inflight \ {c}
    /\ UNCHANGED <<pool, chain, Generator, w, ctx, tasks, last, ncalls,
                   nfaults, materialized, addrIndex>>

\* The engine lands the next block while tx callbacks of fc.AddTx may be
\* pending: the tx callbacks of the block's transactions, the deletion of
\* the rows they spend, then addBlock.
RaceLandBlock ==
    /\ Len(chain) < MaxHeight
    /\ \E txs \in {q \in Arrangements(RaceTxHashes \ ConfirmedTxs(chain)) :
                       ValidBlock(q, 1, chain)} :
       \E b \in {[height |-> Len(chain) + 1, transactions |-> txs,
                   conflicts |-> ConflictsOf(txs, pool), indexed |-> TRUE]} :
       \E cbs \in {TxCallbacks(account_utxos, txs, 0)} :
       \E r \in {addBlock(DeleteSpent(cbs.store, txs), b, b.conflicts,
                           NoFail)} :
           /\ account_utxos' = r.store
           /\ chain' = Append(chain, b)
           /\ pool' = (pool \ SeqRange(txs)) \ SeqRange(b.conflicts)
           /\ last' = [NoCall EXCEPT
                         !.op = "addBlock", !.height = b.height,
                         !.txs = txs, !.conflicts = b.conflicts,
                         !.ins = cbs.ins, !.stmts = r.stmts,
                         !.log = r.log, !.returned = r.returned]
    /\ UNCHANGED <<Generator, w, ctx, tasks, ncalls, nfaults, materialized,
                   inflight, addrIndex>>

NextRace == RaceAddTx \/ RaceMark \/ RaceInsert \/ RaceLandBlock

SpecRace == Init /\ [][NextRace]_vars

(* ------------------------ packing of index keys ------------------------ *)

\* Two outputs with any AddrIndex values reach insertAccountOutputs.
InitKey ==
    /\ account_utxos = {}
    /\ pool = {}
    /\ chain = <<>>
    /\ Generator \in GeneratorValues
    /\ w = Idle
    /\ ctx = Nil
    /\ tasks = {}
    /\ last = NoCall
    /\ ncalls = 0
    /\ nfaults = 0
    /\ materialized = {}
    /\ inflight = {}
    /\ addrIndex \in {[NoKeys EXCEPT !.i1 = a, !.i2 = b] :
                         a \in UInt \X UInt, b \in UInt \X UInt}

\* The loop of insertAccountOutputs, line 259: aIndex gets toKeyIndex of
\* each output's AddrIndex.
PackKeys ==
    /\ ~addrIndex.packed
    /\ addrIndex' = [addrIndex EXCEPT !.k1 = toKeyIndex(addrIndex.i1),
                                      !.k2 = toKeyIndex(addrIndex.i2),
                                      !.packed = TRUE]
    /\ UNCHANGED <<account_utxos, pool, chain, Generator, w, ctx, tasks, last,
                   ncalls, nfaults, materialized, inflight>>

NextKey == PackKeys

SpecKey == InitKey /\ [][NextKey]_vars

(* ------------------------------ properties ----------------------------- *)

GeneratorConfigured == ~Generator.isnil /\ Generator.val # ""

InSeq(x, q) == \E i \in 1..Len(q) : q[i] = x

\* C1: a FinalizeTx call whose template has more signature entries than its
\* unsigned transaction has inputs fails with root ErrBadTxTemplate, returns
\* no transaction, and calls neither AddTx nor Submit.
C1_TooManySignaturesRejectedBeforeSubmission ==
    (last.op = "FinalizeTx" /\ TooManySignatures(last.tmpl)) =>
       /\ ErrorsRoot(last.err) = ErrorsRoot(ErrBadTxTemplate)
       /\ ErrorsDetail(last.err) = <<"too many inputs in template">>
       /\ last.tx = ""
       /\ ~InSeq("AddTx", last.calls)
       /\ ~InSeq("Submit", last.calls)

\* C1 witness: a template that fails only by its length (signatures assemble,
\* the transaction is valid for the engine) has been finalized.
C1_Witness ==
    /\ last.op = "FinalizeTx"
    /\ TooManySignatures(last.tmpl)
    /\ last.tmpl.sigsOK
    /\ ValidTx(last.tmpl.tx, pool, chain)
    /\ GeneratorConfigured

\* C2: the store holds exactly one row for every Outpoint an executed insert
\* proposed and no other row, and every insertAccountOutputs call whose
\* statement the database executed returned nil, also when it proposed
\* Outpoints that were already present.
C2_OneRowPerOutpointNoDuplicateError ==
    /\ \A k \in materialized :
          Cardinality({r \in account_utxos : RowKey(r) = k}) = 1
    /\ \A r \in account_utxos : RowKey(r) \in materialized
    /\ \A i \in 1..Len(last.ins) :
          (last.ins[i].reached /\ ~last.ins[i].failed) => last.ins[i].err = "nil"

\* C2 witness: an insert that proposed an Outpoint already in the store was
\* executed.
C2_Witness ==
    \E i \in 1..Len(last.ins) :
       /\ last.ins[i].reached
       /\ last.ins[i].dup
       /\ ~last.ins[i].failed
       /\ last.ins[i].keys \subseteq {RowKey(r) : r \in account_utxos}

AffectedKeys == SeqRange(PrevoutsOfTxs(last.txs))

RoundTrip == last.op = "markPrevSpentInPool" /\ last.repeat /\ ~last.spent

\* C3 as stated: after markPrevSpentInPool(true, tx) and then
\* markPrevSpentInPool(false, tx), every affected row has the spent_in_pool
\* flag it had before the first call, also the rows whose flag was true.
C3_RoundTripRestoresFlags ==
    RoundTrip =>
       \A r \in last.pre :
          RowKey(r) \in AffectedKeys =>
             \E r2 \in account_utxos :
                RowKey(r2) = RowKey(r) /\ r2.spent_in_pool = r.spent_in_pool

\* C3 amended: after markPrevSpentInPool(true, tx) and then
\* markPrevSpentInPool(false, tx), every affected row has spent_in_pool =
\* FALSE whatever it had before, and nothing else of the store has changed;
\* so the flag is the one before the first call exactly on the rows whose
\* flag was false.
C3_RoundTripClearsFlags ==
    RoundTrip =>
       /\ Cardinality(account_utxos) = Cardinality(last.pre)
       /\ \A r \in last.pre :
             IF RowKey(r) \in AffectedKeys
             THEN [r EXCEPT !.spent_in_pool = FALSE] \in account_utxos
             ELSE r \in account_utxos

\* C3 witness: the round trip was made for a transaction one of whose affected
\* rows was marked spent before the first call, beside a row it does not
\* affect.
C3_Witness ==
    /\ RoundTrip
    /\ \E r \in last.pre : RowKey(r) \in AffectedKeys /\ r.spent_in_pool
    /\ \E r \in last.pre : RowKey(r) \notin AffectedKeys

PositionIn(tx, txs) == (CHOOSE i \in 1..Len(txs) : txs[i] = tx) - 1

\* C4: after an addBlock call whose confirmation update the database
\* executed, every row of every transaction of the block has confirmed_in =
\* the block's height and block_pos = the transaction's position; and an
\* addBlock call repeating the immediately preceding one (same block, same
\* conflicts, both executed) leaves the store as it was.
C4_AddBlockConfirmsAndIsIdempotent ==
    /\ (last.op = "addBlock" /\ ~last.fail.confirm) =>
          \A r \in account_utxos :
             InSeq(r.tx_hash, last.txs) =>
                /\ r.confirmed_in = last.height
                /\ r.block_pos = PositionIn(r.tx_hash, last.txs)
    /\ (/\ last.op = "addBlock"
        /\ last.repeat
        /\ ~last.fail.confirm
        /\ ~last.fail.release) => account_utxos = last.pre

\* C4 witness: a block whose second transaction has two rows was delivered a
\* second time.
C4_Witness ==
    /\ last.op = "addBlock"
    /\ last.repeat
    /\ ~last.fail.confirm
    /\ ~last.fail.release
    /\ Len(last.txs) = 2
    /\ Cardinality({r \in account_utxos : r.tx_hash = last.txs[2]}) = 2

Returned == w.pc = "done"

Answered == w.q.done /\ w.q.err = Nil

\* C5: FinalizeTxWait returns the transaction and no error only after a GetTxs
\* call, made after the notification that the block at the awaited height
\* landed, reported the transaction in the chain; and whenever GetTxs reports
\* it in the chain the call returns the transaction at that step, also when
\* the same answer reports it in the pool.
C5_SuccessIffSeenInChain ==
    /\ (Returned /\ w.err = Nil) =>
          /\ w.ret = w.tx
          /\ w.ret # ""
          /\ Answered
          /\ w.q.inChain
          /\ w.q.height = w.height
          /\ w.notified = w.height
    /\ (Answered /\ w.q.inChain) =>
          /\ Returned
          /\ w.err = Nil
          /\ w.ret = w.tx
    /\ w.q.asked => w.notified = w.q.height

\* C5 witness: the call returned the transaction on an answer that reported
\* it both in the pool and in the chain.
C5_Witness ==
    /\ Returned
    /\ w.err = Nil
    /\ w.q.inPool
    /\ w.q.inChain

\* C6: FinalizeTxWait returns ErrRejected exactly when a GetTxs call, made
\* after the notification that the block at the awaited height landed,
\* reported the transaction neither in the pool nor in the chain.
C6_RejectedIffAbsentFromBoth ==
    /\ (Returned /\ ErrorsRoot(w.err) = ErrorsRoot(ErrRejected)) =>
          /\ w.err = ErrRejected
          /\ w.ret = ""
          /\ Answered
          /\ ~w.q.inPool
          /\ ~w.q.inChain
          /\ w.notified = w.q.height
    /\ (Answered /\ ~w.q.inPool /\ ~w.q.inChain) =>
          /\ Returned
          /\ w.err = ErrRejected
          /\ w.ret = ""

\* C6 witness: the call returned ErrRejected for a transaction a block
\* displaced from the pool.
C6_Witness ==
    /\ Returned
    /\ w.err = ErrRejected
    /\ w.tx \notin pool \cup ConfirmedTxs(chain)
    /\ \E h \in 1..Len(chain) : InSeq(w.tx, chain[h].conflicts)

\* C7: while the block at the awaited height has not landed, the select of
\* the loop has no block notification to receive, and a call that returned
\* from the loop before that block landed returned ctx.Err() itself and no
\* transaction.
C7_ContextEndReturnsContextError ==
    /\ (w.pc = "select" /\ Len(chain) < w.height) =>
          \A t \in tasks : t.height = w.height => ~t.sent
    /\ (Returned /\ w.inLoop /\ w.landed < w.height) =>
          /\ ctx # Nil
          /\ w.err = ctx
          /\ ErrorsRoot(w.err) \in {DeadlineExceeded, Canceled}
          /\ w.err.msg = <<>>
          /\ w.ret = ""

\* C7 witness: the deadline passed while the submitted transaction was in the
\* pool and the awaited block had not landed, and the call returned.
C7_Witness ==
    /\ Returned
    /\ w.inLoop
    /\ w.landed < w.height
    /\ ErrorsRoot(w.err) = DeadlineExceeded
    /\ w.tx \in pool

RelayFailed == last.op = "FinalizeTx" /\ last.relayErr # Nil

\* C8: the relay is attempted exactly when AddTx succeeded and a Generator is
\* configured; when it fails, FinalizeTx returns an error and no transaction
\* and the submitted transaction is still in the pool (or confirmed); a
\* FinalizeTx call repeating a call whose relay failed hands the same
\* transaction to AddTx and, AddTx succeeding, calls Submit again.
C8_RelayFailureKeepsLocalSubmission ==
    /\ (last.op = "FinalizeTx" /\ InSeq("AddTx", last.calls)) =>
          (InSeq("Submit", last.calls) <=>
             (last.engineErr = Nil /\ GeneratorConfigured))
    /\ RelayFailed =>
          /\ last.err # Nil
          /\ ErrorsRoot(last.err) = ErrorsRoot(last.relayErr)
          /\ last.tx = ""
          /\ last.engineErr = Nil
          /\ last.submitted \in pool \cup ConfirmedTxs(chain)
    /\ (last.op = "FinalizeTx" /\ last.repeat) =>
          /\ last.calls # <<>>
          /\ last.calls[1] = "AddTx"
          /\ last.submitted = last.tmpl.tx
          /\ last.engineErr = Nil => last.calls = <<"AddTx", "Submit">>

\* C8 witness: the relay failed, the call was repeated with the same
\* template, and the relay was attempted again with the transaction still
\* in the pool.
C8_Witness ==
    /\ last.op = "FinalizeTx"
    /\ last.repeat
    /\ last.calls = <<"AddTx", "Submit">>
    /\ last.submitted \in pool

\* C9: when AddTx fails, a failure whose root is validation.ErrBadTx gives an
\* error whose root is ErrBadTxTemplate and whose detail is the engine's
\* detail; any other failure gives an error with another root; the relay is
\* not attempted and no transaction is returned.
C9_AddTxFailureClassifiedByRoot ==
    (last.op = "FinalizeTx" /\ last.engineErr # Nil) =>
       /\ ErrorsRoot(last.engineErr) = ErrBadTx =>
             /\ ErrorsRoot(last.err) = ErrorsRoot(ErrBadTxTemplate)
             /\ ErrorsDetail(last.err) = ErrorsDetail(last.engineErr)
       /\ ErrorsRoot(last.engineErr) # ErrBadTx =>
             /\ ErrorsRoot(last.err) # ErrorsRoot(ErrBadTxTemplate)
             /\ ErrorsRoot(last.err) = ErrorsRoot(last.engineErr)
       /\ ~InSeq("Submit", last.calls)
       /\ last.tx = ""

\* C9 witness: the engine refused a transaction as invalid while a Generator
\* was configured.
C9_Witness ==
    /\ last.op = "FinalizeTx"
    /\ ErrorsRoot(last.engineErr) = ErrBadTx
    /\ GeneratorConfigured

ConflictRows ==
    {r \in account_utxos : RowKey(r) \in SeqRange(PrevoutsOfTxs(last.conflicts))}

\* C10: every addBlock call returns, having attempted both statements: each
\* failed statement leaves one log entry and nothing else, a failed
\* confirmation update does not keep the release from taking effect, and the
\* block the call was made for is on the chain.
C10_AddBlockNeverFails ==
    last.op = "addBlock" =>
       /\ last.returned
       /\ last.stmts = <<"confirm", "release">>
       /\ Len(last.log) = Count(last.fail.confirm) + Count(last.fail.release)
       /\ ~last.fail.release => \A r \in ConflictRows : ~r.spent_in_pool
       /\ Len(chain) = last.height

\* C10 witness: the confirmation update failed for a block that displaced a
\* transaction whose input row is in the store.
C10_Witness ==
    /\ last.op = "addBlock"
    /\ last.fail.confirm
    /\ ConflictRows # {}

\* The index shows block N: every row of every transaction of the block has
\* the block's height and the transaction's position.
Reflects(N) ==
    \A r \in account_utxos :
       InSeq(r.tx_hash, chain[N].transactions) =>
          /\ r.confirmed_in = N
          /\ r.block_pos = PositionIn(r.tx_hash, chain[N].transactions)

\* The blocks a waiter relies on: the one it was notified of, and the ones
\* holding the transaction it returned as confirmed.
ReliedOn ==
    {N \in 1..Len(chain) :
       \/ N = w.notified
       \/ Returned /\ w.err = Nil /\ InSeq(w.tx, chain[N].transactions)}

Registered(script) ==
    {Addresses[i] : i \in {k \in 1..Len(Addresses) :
                              Addresses[k].pk_script = script}}

\* The store's rows for tx are exactly its outputs with a registered script.
RowsAsRegistered(tx) ==
    {RowKey(r) : r \in {x \in account_utxos : x.tx_hash = tx}}
       = {<<tx, i - 1>> : i \in {k \in 1..Len(Tx(tx).outputs) :
                                  Registered(Tx(tx).outputs[k].script) # {}}}

\* C12: every row carries the script of its output and the account id and
\* manager-node id the registry has for that script; and after an
\* addAccountData call whose insert the database executed, the transaction
\* has a row for each output with a registered script (also for outputs
\* sharing a script), none for the others, and the insert returned nil.
C12_RowsExactlyForRegisteredScripts ==
    /\ \A r \in account_utxos :
          /\ r.index < Len(Tx(r.tx_hash).outputs)
          /\ r.script = Tx(r.tx_hash).outputs[r.index + 1].script
          /\ \E a \in Registered(r.script) :
                /\ r.account_id = a.account_id
                /\ r.manager_node_id = a.manager_node_id
    /\ (/\ last.op = "FinalizeTx"
        /\ last.ins[1].reached
        /\ ~last.ins[1].failed) =>
          /\ RowsAsRegistered(last.submitted)
          /\ last.ins[1].err = "nil"
          /\ last.engineErr = Nil
    /\ last.op = "addBlock" =>
          \A i \in 1..Len(last.ins) :
             (last.ins[i].reached /\ ~last.ins[i].failed) =>
                /\ RowsAsRegistered(last.txs[i])
                /\ last.ins[i].err = "nil"

\* C12 witness: addAccountData ran for T1, whose two outputs share a
\* registered script, after it ran for T0, which has an output with an
\* unregistered script.
C12_Witness ==
    /\ last.op = "FinalizeTx"
    /\ last.submitted = "T1"
    /\ last.ins[1].reached
    /\ ~last.ins[1].failed
    /\ Cardinality({r \in account_utxos : r.tx_hash = "T1"}) = 2
    /\ Cardinality({r \in account_utxos : r.tx_hash = "T0"}) = 1
    /\ Registered(Tx("T0").outputs[2].script) = {}

\* The call is in its loop.
Pending == w.pc \in {"loop", "select", "gettxs", "gettxs2"}

\* The blocks that landed after LatestBlock was called and hold the waiter's
\* transaction.
IncludedAbove ==
    {N \in (w.start + 1)..Len(chain) : InSeq(w.tx, chain[N].transactions)}

\* C13: a call in its loop whose transaction is in a block above the height
\* the chain had when LatestBlock was called never waits for a height above
\* that block; and if the context does not end and no collaborator call
\* fails, such a call eventually returns the transaction with no error.
C13_NoLandedBlockMissed ==
    /\ [](Pending => \A N \in IncludedAbove : w.height <= N)
    /\ ([](ctx = Nil /\ nfaults = 0))
          => ((Pending /\ IncludedAbove # {})
                ~> (Returned /\ w.err = Nil /\ w.ret = w.tx))

\* C13 witness: the transaction was put in a block that landed between the
\* capture of the height and the first wait, and the call returned it.
C13_Witness ==
    /\ Returned
    /\ w.err = Nil
    /\ w.ret = w.tx
    /\ w.start + 1 \in IncludedAbove
    /\ w.height = w.start + 1
    /\ w.start >= 1
    /\ ctx = Nil
    /\ nfaults = 0

\* The GetTxs answer of the iteration shows the transaction in the pool only.
PoolOnly == Answered /\ w.q.inPool /\ ~w.q.inChain

\* C14: on an answer that shows the transaction in the pool only the call
\* does not return but goes on to the next iteration; the call starts from
\* the height the chain had when LatestBlock was called; the awaited height
\* grows by one at a time, and, after the first, only when the block at the
\* awaited height has landed, the call was notified of it and the answer for
\* it was pool-only; so the awaited height is at most the chain's height + 1.
C14_PendingAwaitsConsecutiveHeights ==
    /\ [](PoolOnly => (w.pc = "loop" /\ ~Returned))
    /\ [](w.pc = "finalize" => w.height = w.start)
    /\ [](w.pc # "idle" => w.height <= Len(chain) + 1)
    /\ [][(w.pc # "idle" /\ w'.height # w.height) =>
            /\ w'.height = w.height + 1
            /\ w.pc = "loop"
            /\ w'.pc = "select"
            /\ \/ w.height = w.start /\ ~w.q.asked
               \/ /\ PoolOnly
                  /\ w.q.height = w.height
                  /\ w.notified = w.height
                  /\ Len(chain) >= w.height]_vars

\* C14 witness: the call waits for the second height after the captured one,
\* its transaction still in the pool.
C14_Witness ==
    /\ w.pc = "select"
    /\ w.height = w.start + 2
    /\ w.notified = w.start + 1
    /\ w.tx \in pool
    /\ Len(chain) = w.start + 1

\* The outcomes of a call that returned from its loop.
Confirmed == w.err = Nil /\ w.ret = w.tx /\ Answered /\ w.q.inChain

Rejected ==
    w.err = ErrRejected /\ w.ret = "" /\ Answered /\ ~w.q.inPool /\ ~w.q.inChain

Cancelled == ctx # Nil /\ w.err = ctx /\ w.ret = ""

QueryFailed ==
    /\ w.q.done
    /\ w.q.err # Nil
    /\ w.err = ErrorsWrap(w.q.err, <<"getting pool/bc txs">>)
    /\ w.ret = ""

WaitFailed ==
    /\ w.err = ErrorsWrap(ErrorsNew(ErrTheDistantFuture),
                          <<"waiting for block %d">>)
    /\ w.ret = ""

\* C15 as stated: a call that returned from its loop returned the
\* transaction (confirmed), ErrRejected, or the context's error.
C15_ThreeTerminalOutcomes ==
    (Returned /\ w.inLoop) => (Confirmed \/ Rejected \/ Cancelled)

\* C15 amended: a call that returned from its loop returned the transaction
\* (confirmed), ErrRejected, the context's error, or the wrapped error of a
\* failed GetTxs or WaitForBlock call; each outcome has its own cause.
C15_TerminalOutcomes ==
    (Returned /\ w.inLoop) =>
       (Confirmed \/ Rejected \/ Cancelled \/ QueryFailed \/ WaitFailed)

\* C15 witness: GetTxs failed after a notification and the call returned
\* that error, the transaction still in the pool.
C15_Witness ==
    /\ Returned
    /\ w.inLoop
    /\ QueryFailed
    /\ w.notified = w.height
    /\ w.tx \in pool

(* C16: a FinalizeTxWait call has at most one block-wait task that was
   started and has not completed, and the task for height h+1 is started
   only after the result of the task for height h was received: every task
   not yet received from is the one for the height the call awaits, and that
   height is the first one awaited or follows the height last notified. *)
C16_AtMostOneOutstandingTask ==
    /\ Cardinality({t \in tasks : ~t.sent}) <= 1
    /\ \A t \in tasks :
         /\ t.height = w.height
         /\ t.height = w.start + 1 \/ w.notified = t.height - 1

\* The call was notified for its first height and its second task is waiting.
C16_Witness ==
    /\ w.pc = "select"
    /\ w.notified = w.start + 1
    /\ \E t \in tasks : ~t.sent /\ t.height = w.start + 2
\* The task of waitBlock left behind by a call that returned.
Abandoned(t) == Returned /\ t \in tasks /\ ~t.sent

\* The result of the task for height h is in its channel.
Delivered(h) == \E t \in tasks : t.height = h /\ t.sent

(* C17: the block-wait task of a call that has returned is not cancelled by
   the call and still terminates: no step takes an abandoned task away other
   than its own send, and once its height has landed the task delivers its
   result into its channel though nobody receives from it. *)
C17_AbandonedTaskStillDelivers ==
    /\ [][\A t \in tasks :
            Abandoned(t) => (t \in tasks' \/ Delivered(t.height)')]_vars
    /\ \A h \in 1..(MaxHeight + 1) :
         (\E t \in tasks : Abandoned(t) /\ t.height = h /\ Len(chain) >= h)
            ~> Delivered(h)

\* The call returned the context's error before the awaited height landed,
\* and the task it left behind has delivered its result since.
C17_Witness ==
    /\ Returned /\ Cancelled
    /\ w.landed < w.height
    /\ Delivered(w.height)
\* The rows whose confirmed_in has been set.
ConfirmedRows == {r \in account_utxos : r.confirmed_in # NULL}

(* C18: confirmed_in and block_pos of a row are set only once: whatever
   FinalizeTx, a block landing or the redelivery of a block callback does,
   a row whose confirmed_in has been set is in the table afterwards with the
   same confirmed_in and the same block_pos. *)
C18_ConfirmationSetOnce ==
    [][\A r \in ConfirmedRows :
          \E r2 \in account_utxos' :
              /\ RowKey(r2) = RowKey(r)
              /\ r2.confirmed_in = r.confirmed_in
              /\ r2.block_pos = r.block_pos]_vars

\* addBlock has confirmed the transactions of a later block while a row of
\* an earlier block was in the table.
C18_Witness ==
    /\ last.op = "addBlock" /\ last.returned /\ ~last.fail.confirm
    /\ last.txs # <<>>
    /\ \E r \in ConfirmedRows : r.confirmed_in < last.height
    /\ \E r \in ConfirmedRows : r.confirmed_in = last.height
\* tx was displaced from the pool by a landed block, whose addBlock returned.
Displaced(tx) ==
    \E h \in 1..Len(chain) : tx \in SeqRange(chain[h].conflicts)

\* The rows of the outputs tx spends.
PrevoutRows(tx) == {r \in account_utxos : RowKey(r) \in Prevouts(tx)}

(* C19: however addAccountData(T) is interleaved with addBlock(B, conflicts)
   with T among the conflicts, once both have returned the rows of the
   outputs T spends have spent_in_pool = false. *)
C19_DisplacedReservationReleased ==
    \A tx \in RaceTxHashes :
       (Displaced(tx) /\ ~InFlight(tx)) =>
          \A r \in PrevoutRows(tx) : ~r.spent_in_pool

\* The callback ran before the block landed: T3 is displaced and the row of
\* the output it alone spent is free again.
C19_Witness ==
    /\ Displaced("T3") /\ ~InFlight("T3")
    /\ \E r \in PrevoutRows("T3") : ~r.spent_in_pool
\* a before b in the lexicographic order of pairs.
LexLess(a, b) == a[1] < b[1] \/ (a[1] = b[1] /\ a[2] < b[2])

\* The pair with its low component masked.
Masked(i) == <<i[1], i[2] % 2^Shift>>

\* The key of i is high * 2^31 + (low mod 2^31), non-negative and below 2^63
\* (at the model's width).
PackedAs(i, k) ==
    /\ k = i[1] * 2^Shift + (i[2] % 2^Shift)
    /\ 0 <= k /\ k < 2^(2 * Width - 1)

(* C20, as stated: toKeyIndex packs (high, low) into
   high * 2^31 + (low mod 2^31), non-negative and below 2^63, and for all
   pairs of components (h1, l1) is lexicographically smaller than (h2, l2)
   exactly when toKeyIndex(h1, l1) < toKeyIndex(h2, l2). *)
C20_PackingPreservesOrder ==
    addrIndex.packed =>
       /\ PackedAs(addrIndex.i1, addrIndex.k1)
       /\ PackedAs(addrIndex.i2, addrIndex.k2)
       /\ LexLess(addrIndex.i1, addrIndex.i2) <=> addrIndex.k1 < addrIndex.k2

(* C20, amended: the packing is as stated, and the order of the keys is the
   lexicographic order of the pairs with their low components masked; so it
   is the order of the pairs when both low components are below 2^31. *)
C20_PackingPreservesMaskedOrder ==
    addrIndex.packed =>
       /\ PackedAs(addrIndex.i1, addrIndex.k1)
       /\ PackedAs(addrIndex.i2, addrIndex.k2)
       /\ LexLess(Masked(addrIndex.i1), Masked(addrIndex.i2))
             <=> addrIndex.k1 < addrIndex.k2
       /\ (addrIndex.i1[2] < 2^Shift /\ addrIndex.i2[2] < 2^Shift) =>
             (LexLess(addrIndex.i1, addrIndex.i2)
                <=> addrIndex.k1 < addrIndex.k2)

\* Two pairs with the same high component, the greater low component having
\* its top bit set: the keys are in the other order.
C20_Witness ==
    /\ addrIndex.packed
    /\ addrIndex.i1[1] = addrIndex.i2[1]
    /\ addrIndex.i1[2] < addrIndex.i2[2] /\ addrIndex.i2[2] >= 2^Shift
    /\ addrIndex.k1 > addrIndex.k2
====
